---- MODULE Spec2Model ----
(***************************************************************************)
(* Croesus: European political donations tracker (src/app.py).             *)
(*                                                                         *)
(* The program is a Streamlit script: every user interaction re-runs the   *)
(* whole script top to bottom against st.session_state.  One action of     *)
(* this model is one such script run.  Text is modelled as sequences of    *)
(* one-character strings, data frames as sequences of records, an          *)
(* exception leaving a function as the flag `raised`.                      *)
(***************************************************************************)
EXTENDS Integers, Sequences, FiniteSets, TLC

(***************************************************************************)
(* Text                                                                    *)
(***************************************************************************)

\* str.upper() of one character; a sequence because upper-casing may
\* change the length of a string ('ß'.upper() is 'SS').
UpperChar(c) ==
    CASE c = "a" -> <<"A">>
      [] c = "s" -> <<"S">>
      [] c = "ß" -> <<"S", "S">>
      [] c = "b" -> <<"B">>
      [] c = "n" -> <<"N">>
      [] c = "o" -> <<"O">>
      [] c = "r" -> <<"R">>
      [] c = "t" -> <<"T">>
      [] c = "c" -> <<"C">>
      [] c = "d" -> <<"D">>
      [] c = "e" -> <<"E">>
      [] c = "m" -> <<"M">>
      [] c = "p" -> <<"P">>
      [] c = "u" -> <<"U">>
      [] c = "y" -> <<"Y">>
      [] OTHER   -> <<c>>

\* str.lower() of one character.
LowerChar(c) ==
    CASE c = "A" -> "a"
      [] c = "S" -> "s"
      [] c = "B" -> "b"
      [] c = "N" -> "n"
      [] c = "O" -> "o"
      [] c = "R" -> "r"
      [] c = "T" -> "t"
      [] c = "C" -> "c"
      [] c = "D" -> "d"
      [] c = "E" -> "e"
      [] c = "M" -> "m"
      [] c = "P" -> "p"
      [] c = "U" -> "u"
      [] c = "Y" -> "y"
      [] OTHER   -> c

RECURSIVE upper(_)
upper(s) == IF s = <<>> THEN <<>> ELSE UpperChar(Head(s)) \o upper(Tail(s))

lower(s) == [i \in 1..Len(s) |-> LowerChar(s[i])]

RECURSIVE lstrip(_)
lstrip(s) == IF s # <<>> /\ Head(s) = " " THEN lstrip(Tail(s)) ELSE s

RECURSIVE rstrip(_)
rstrip(s) ==
    IF s # <<>> /\ s[Len(s)] = " " THEN rstrip(SubSeq(s, 1, Len(s) - 1)) ELSE s

\* str.strip()
strip(s) == rstrip(lstrip(s))

Min(a, b) == IF a < b THEN a ELSE b

\* Python slice s[i:j] for 0 <= i <= j (out-of-range ends are clipped).
Slice(s, i, j) == SubSeq(s, i + 1, Min(j, Len(s)))

\* Python slice s[i:]
SliceFrom(s, i) == SubSeq(s, i + 1, Len(s))

\* str.startswith
startswith(s, p) == Len(s) >= Len(p) /\ SubSeq(s, 1, Len(p)) = p

\* Python `p in s` for strings
contains(s, p) == \E i \in 0..(Len(s) - Len(p)) : Slice(s, i, i + Len(p)) = p

OR_KW == <<" ", "O", "R", " ">>

\* A keyword test without the space after the word.
NOT_KW_no_space == <<"N", "O", "T">>

NOT_KW == <<"N", "O", "T", " ">>

(***************************************************************************)
(* Boolean search support                                                  *)
(***************************************************************************)

\* The while loop of parse_boolean_query: walks the query by index i,
\* testing the upper-cased copy at the same index.
RECURSIVE SplitOr(_, _, _, _, _)
SplitOr(query, query_upper, i, current, parts) ==
    IF i < Len(query)
    THEN IF Slice(query_upper, i, i + 4) = OR_KW
         THEN SplitOr(query, query_upper, i + 4, <<>>,
                      IF strip(current) # <<>>
                      THEN Append(parts, strip(current)) ELSE parts)
         ELSE SplitOr(query, query_upper, i + 1,
                      Append(current, query[i + 1]), parts)
    ELSE IF strip(current) # <<>> THEN Append(parts, strip(current)) ELSE parts

RECURSIVE parse_boolean_query(_)
parse_boolean_query(raw) ==
    LET query == strip(raw)
        query_upper == upper(query)
        parts == SplitOr(query, query_upper, 0, <<>>, <<>>)
    IN  IF startswith(query_upper, NOT_KW)
        THEN [type |-> "NOT", term |-> strip(SliceFrom(query, 4)), terms |-> <<>>]
        ELSE IF contains(query_upper, OR_KW) /\ Len(parts) > 1
        THEN [type |-> "OR", term |-> <<>>,
              terms |-> [k \in 1..Len(parts) |-> parse_boolean_query(parts[k])]]
        ELSE [type |-> "TERM", term |-> query, terms |-> <<>>]

is_boolean_query(query) ==
    LET query_upper == upper(query)
    IN  contains(query_upper, OR_KW) \/ startswith(query_upper, NOT_KW)

RECURSIVE extract_terms(_)
extract_terms(q) ==
    IF q.type = "OR"
    THEN LET F[k \in 0..Len(q.terms)] ==
                 IF k = 0 THEN <<>> ELSE F[k - 1] \o extract_terms(q.terms[k])
         IN  F[Len(q.terms)]
    ELSE <<q.term>>

get_search_terms(query) == extract_terms(parse_boolean_query(query))

(***************************************************************************)
(* pandas string matching                                                  *)
(***************************************************************************)

\* A missing (NaN / None) text cell.
NaN == <<"NaN">>

\* Series.str.contains(pat) compiles pat as a regular expression
\* (regex=True is the default).  The patterns here are made of literal
\* characters, '.', '(' and the repetitions '*' and '+'.
Repeats == {"*", "+"}

\* re.compile raises re.error on an unterminated group, on a repetition
\* with nothing to repeat and on a repetition of a repetition.
RegexError(pat) ==
    \/ \E i \in 1..Len(pat) : pat[i] = "("
    \/ pat # <<>> /\ pat[1] \in Repeats
    \/ \E i \in 1..(Len(pat) - 1) : pat[i] \in Repeats /\ pat[i + 1] \in Repeats

\* re.match of a well-formed pattern at the start of text.
RECURSIVE RegexMatchHere(_, _)
RegexMatchHere(pat, text) ==
    IF pat = <<>> THEN TRUE
    ELSE IF Len(pat) >= 2 /\ pat[2] \in Repeats
    THEN \E n \in (IF pat[2] = "*" THEN 0 ELSE 1)..Len(text) :
            /\ \A k \in 1..n : pat[1] = "." \/ pat[1] = text[k]
            /\ RegexMatchHere(SubSeq(pat, 3, Len(pat)), SubSeq(text, n + 1, Len(text)))
    ELSE /\ text # <<>>
         /\ pat[1] = "." \/ pat[1] = text[1]
         /\ RegexMatchHere(Tail(pat), Tail(text))

\* re.search(pat, text)
RegexSearch(pat, text) ==
    \E i \in 0..Len(text) : RegexMatchHere(pat, SubSeq(text, i + 1, Len(text)))

\* df[column].str.lower().str.contains(pat, na=False) for one cell.
str_contains_na_false(cell, pat) ==
    IF cell = NaN THEN FALSE ELSE RegexSearch(pat, lower(cell))

\* df[column].str.lower().fillna('').str.contains(pat, na=False) for one cell.
str_contains_fillna(cell, pat) ==
    RegexSearch(pat, IF cell = NaN THEN <<>> ELSE lower(cell))

\* df.columns of a frame built from a list of dicts.
Columns(df) == IF df = <<>> THEN {} ELSE DOMAIN df[1]

\* df[mask]: the rows at the positions in idx, in frame order.
RECURSIVE Rows(_, _, _)
Rows(df, idx, k) ==
    IF k > Len(df) THEN <<>>
    ELSE (IF k \in idx THEN <<df[k]>> ELSE <<>>) \o Rows(df, idx, k + 1)

Take(df, idx) == Rows(df, idx, 1)

\* A filter in which OR keeps the rows that every sub-query keeps.
RECURSIVE boolean_index_all_terms(_, _, _)
boolean_index_all_terms(df, query, column) ==
    IF df = <<>> \/ column \notin Columns(df)
    THEN [raised |-> FALSE, idx |-> 1..Len(df)]
    ELSE IF query.type = "OR"
    THEN LET sub == [k \in 1..Len(query.terms) |->
                        boolean_index_all_terms(df, query.terms[k], column)]
         IN  [raised |-> \E k \in 1..Len(sub) : sub[k].raised,
              idx |-> {i \in 1..Len(df) : \A k \in 1..Len(sub) : i \in sub[k].idx}]
    ELSE IF RegexError(lower(query.term)) THEN [raised |-> TRUE, idx |-> {}]
    ELSE [raised |-> FALSE,
          idx |-> {k \in 1..Len(df) :
                      (query.type = "TERM") =
                          str_contains_fillna(df[k][column], lower(query.term))}]

\* The row labels (df.index) kept by apply_boolean_filter without exclusions;
\* raised when str.contains raises.
RECURSIVE boolean_index(_, _, _)
boolean_index(df, query, column) ==
    IF df = <<>> \/ column \notin Columns(df)
    THEN [raised |-> FALSE, idx |-> 1..Len(df)]
    ELSE IF query.type = "TERM"
    THEN LET term == lower(query.term)
         IN  IF RegexError(term) THEN [raised |-> TRUE, idx |-> {}]
             ELSE [raised |-> FALSE,
                   idx |-> {k \in 1..Len(df) : str_contains_fillna(df[k][column], term)}]
    ELSE IF query.type = "OR"
    THEN LET sub == [k \in 1..Len(query.terms) |->
                        boolean_index(df, query.terms[k], column)]
         IN  IF \E k \in 1..Len(sub) : sub[k].raised
             THEN [raised |-> TRUE, idx |-> {}]
             ELSE [raised |-> FALSE,
                   idx |-> UNION {sub[k].idx : k \in 1..Len(sub)}]
    ELSE LET term == lower(query.term)
         IN  IF RegexError(term) THEN [raised |-> TRUE, idx |-> {}]
             ELSE [raised |-> FALSE,
                   idx |-> {k \in 1..Len(df) : ~str_contains_fillna(df[k][column], term)}]

\* apply_boolean_filter(df, query, column, exclusions); exclusions = {} is
\* the default None.
apply_boolean_filter(df, query, column, exclusions) ==
    LET r == boolean_index(df, query, column)
        result == Take(df, r.idx)
    IN  IF r.raised THEN [raised |-> TRUE, recs |-> <<>>]
        ELSE IF exclusions # {} /\ result # <<>> /\ column \in Columns(result)
        THEN [raised |-> FALSE,
              recs |-> SelectSeq(result, LAMBDA rec : rec[column] \notin exclusions)]
        ELSE [raised |-> FALSE, recs |-> result]

\* The "simple search" of the locally filtering adapters:
\*   mask = df[column].str.lower().str.contains(query.lower(), na=False)
\*   return df[mask].copy()
simple_search(df, query, column) ==
    LET query_lower == lower(query)
    IN  IF RegexError(query_lower) THEN [raised |-> TRUE, recs |-> <<>>]
        ELSE [raised |-> FALSE,
              recs |-> SelectSeq(df, LAMBDA rec :
                           str_contains_na_false(rec[column], query_lower))]

\* The tail shared by the locally filtering adapters: boolean path or
\* simple path, chosen by is_boolean_query.
local_filter(df, query, column) ==
    IF is_boolean_query(query)
    THEN apply_boolean_filter(df, parse_boolean_query(query), column, {})
    ELSE simple_search(df, query, column)

(***************************************************************************)
(* Numbers                                                                 *)
(***************************************************************************)

Digits == {"0", "1", "2", "3", "4", "5", "6", "7", "8", "9"}

DigitVal(c) ==
    CASE c = "0" -> 0 [] c = "1" -> 1 [] c = "2" -> 2 [] c = "3" -> 3
      [] c = "4" -> 4 [] c = "5" -> 5 [] c = "6" -> 6 [] c = "7" -> 7
      [] c = "8" -> 8 [] OTHER -> 9

RECURSIVE IntOf(_)
IntOf(s) == IF s = <<>> THEN 0 ELSE 10 * IntOf(SubSeq(s, 1, Len(s) - 1)) + DigitVal(s[Len(s)])

\* str.replace(old, '') for a one-character old.
remove_char(s, c) == SelectSeq(s, LAMBDA ch : ch # c)

\* float(s) for plain decimal text with at most two decimals; the value is
\* kept in hundredths.  ok = FALSE is the ValueError float() raises.
float_of(s) ==
    LET dots == {i \in 1..Len(s) : s[i] = "."}
        dot  == IF dots = {} THEN Len(s) + 1 ELSE CHOOSE i \in dots : TRUE
        ip   == SubSeq(s, 1, dot - 1)
        fp   == SubSeq(s, dot + 1, Len(s))
        wellformed ==
            /\ Cardinality(dots) <= 1
            /\ Len(ip) + Len(fp) > 0
            /\ Len(fp) <= 2
            /\ \A i \in 1..Len(s) : s[i] \in Digits \/ s[i] = "."
    IN  IF ~wellformed THEN [ok |-> FALSE, value |-> 0]
        ELSE [ok |-> TRUE,
              value |-> 100 * IntOf(ip)
                        + (IF Len(fp) = 1 THEN 10 * IntOf(fp) ELSE IntOf(fp))]

(***************************************************************************)
(* The sources (the world outside the program)                             *)
(***************************************************************************)

\* Number of documents (years, files, result pages, term searches) each
\* remote source is asked for in one search.
NDocs == 2

Jurisdictions ==
    {"uk", "germany", "austria", "italy", "netherlands",
     "estonia", "latvia", "lithuania", "eu"}

\* Jurisdictions whose adapter fetches over the network.
Remote == {"uk", "germany", "austria", "italy", "netherlands", "latvia", "eu"}

FetchUnits == Remote \X (1..NDocs)

\* What one requests.get and the document it returns can be:
\*   ok          status 200, the expected document
\*   timeout     requests.get raises (timeout, connection error)
\*   status      a non-200 status
\*   malformed   status 200, content the parser cannot read
\*   unexpected  status 200, content that parses but is not laid out as
\*               the adapter expects
Failures == {"timeout", "status", "malformed", "unexpected"}

\* One search meets at most one failing fetch; every other fetch is ok.
NoFailure == [unit |-> <<"none", 0>>, beh |-> "ok"]

Envs ==
    {NoFailure} \cup {[unit |-> u, beh |-> b] : u \in FetchUnits, b \in Failures}

Beh(env, j, k) == IF env.unit = <<j, k>> THEN env.beh ELSE "ok"

\* Donor names present in the sources.
AB == <<"A", "b">>
B  == <<"b">>

\* Rows of the Electoral Commission CSV export.
UKData ==
    << [ECRef |-> 1, DonorName |-> AB, AcceptedDate |-> 2023,
        Value |-> <<"£", "5">>],
       [ECRef |-> 2, DonorName |-> B, AcceptedDate |-> 2024,
        Value |-> <<"£", "1", ",", "0", "0", "0", ".", "5", "0">>] >>

\* What the remote donor-name searches (Electoral Commission `query=`,
\* KNAB `donator=`) answer: the rows whose donor holds the term, letter
\* case ignored.
remote_match(rows, column, term) ==
    SelectSeq(rows, LAMBDA r : contains(lower(r[column]), lower(term)))

\* The k-th yearly / per-file document of a locally filtered source.
Doc(j, k) ==
    LET donor == IF k % 2 = 1 THEN AB ELSE B
    IN  CASE j = "germany" ->
               << [Donor |-> donor, DonorFull |-> donor \o <<"B">>,
                   Amount |-> 100 * k, Year |-> 2026 - k] >>
          [] j = "austria" ->
               << [Donor |-> B, Amount |-> 250 * k, Year |-> 2026 - k] >>
          [] j = "italy" ->
               \* the last row is in every file (the files overlap)
               << [Donor |-> donor, Party |-> "PD", Amount |-> 300, Year |-> 2026 - k],
                  [Donor |-> NaN, Party |-> "PD", Amount |-> 50, Year |-> 2026 - k],
                  [Donor |-> B, Party |-> "PD", Amount |-> 70, Year |-> 2024] >>
          [] j = "netherlands" ->
               << [Donor |-> AB, Amount |-> 1000 * k, Year |-> 2026 - k,
                   Source |-> "Netherlands BZK"] >>
          [] OTHER ->
               << [Donor |-> donor, Amount |-> 1200 * k, Year |-> 2026 - k] >>

\* All KNAB rows, newest first; the site shows one row per page here.
KnabData ==
    [k \in 1..NDocs |-> [Donor |-> AB, Amount |-> 10 * k, Year |-> 2026 - k]]

NETHERLANDS_EMBEDDED_DATA ==
    << [Donor |-> AB, Amount |-> 10000, Year |-> 2025],
       [Donor |-> B, Amount |-> 2000, Year |-> 2024] >>

estonia_sample_data ==
    << [Donor |-> AB, Amount |-> 5000, Year |-> 2024],
       [Donor |-> B, Amount |-> 3000, Year |-> 2023] >>

lithuania_sample_data ==
    << [Donor |-> B, Amount |-> 1500, Year |-> 2024] >>

(***************************************************************************)
(* Per-jurisdiction adapters.  Each returns [raised, recs]: raised = TRUE  *)
(* means an exception left the adapter.                                    *)
(***************************************************************************)

Returned(recs) == [raised |-> FALSE, recs |-> recs]
Raised == [raised |-> TRUE, recs |-> <<>>]

\* pd.concat(list of frames, ignore_index=True)
RECURSIVE concat(_)
concat(dfs) == IF dfs = <<>> THEN <<>> ELSE Head(dfs) \o concat(Tail(dfs))

\* A frame left as it is, duplicates included.
keep_duplicates(df, cols) == df

\* df.drop_duplicates(subset=cols): the first row of every key is kept.
drop_duplicates(df, cols) ==
    LET key(r) == [c \in cols |-> r[c]]
    IN  Take(df, {k \in 1..Len(df) : \A m \in 1..(k - 1) : key(df[m]) # key(df[k])})

\* One CSV download of search_uk_donations: the frame read, or <<>> when
\* the request fails, the status is not 200 or read_csv raises.  An
\* unexpected document carries a Value cell that is not an amount.
uk_download(term, beh) ==
    IF beh = "ok" THEN remote_match(UKData, "DonorName", term)
    ELSE IF beh = "unexpected"
    THEN [k \in 1..Len(UKData) |-> [UKData[k] EXCEPT !.Value = <<"n", "a">>]]
    ELSE <<>>

\* df['Value'].str.replace('£', '').str.replace(',', '').astype(float)
uk_value(text) == float_of(remove_char(remove_char(text, "£"), ","))

\* The clean-up of a UK frame; raised when astype(float) raises.
uk_clean(df) ==
    IF \E k \in 1..Len(df) : ~uk_value(df[k].Value).ok THEN Raised
    ELSE Returned([k \in 1..Len(df) |->
            [ECRef |-> df[k].ECRef, DonorName |-> df[k].DonorName,
             AcceptedDate |-> df[k].AcceptedDate, Value |-> df[k].Value,
             ValueNumeric |-> uk_value(df[k].Value).value]])

\* The non-empty frames the term searches of a boolean query download.
uk_all_dfs(query, env) ==
    LET search_terms == get_search_terms(query)
        fetched == [k \in 1..Len(search_terms) |->
                       uk_download(search_terms[k], Beh(env, "uk", k))]
    IN  SelectSeq(fetched, LAMBDA df : df # <<>>)

\* The frames combined, one row per ECRef.
uk_combined(query, env) == drop_duplicates(concat(uk_all_dfs(query, env)), {"ECRef"})

search_uk_donations(query, env) ==
    IF is_boolean_query(query)
    THEN LET all_dfs  == uk_all_dfs(query, env)
             cleaned  == uk_clean(uk_combined(query, env))
         IN  IF all_dfs = <<>> THEN Returned(<<>>)
             ELSE IF cleaned.raised THEN Raised
             ELSE apply_boolean_filter(cleaned.recs, parse_boolean_query(query),
                                       "DonorName", {})
    ELSE LET df == uk_download(query, Beh(env, "uk", 1))
             cleaned == uk_clean(df)
         IN  \* the whole simple path sits inside try/except Exception
             IF df = <<>> \/ cleaned.raised THEN Returned(<<>>) ELSE cleaned

\* scrape_bundestag_year / download + parse of one file: the rows of one
\* document, <<>> whenever the fetch or the parse fails.
rows_or_empty(j, k, env) == IF Beh(env, j, k) = "ok" THEN Doc(j, k) ELSE <<>>

all_docs(j, env) == concat([k \in 1..NDocs |-> rows_or_empty(j, k, env)])

search_germany_donations(query, env) ==
    LET combined == all_docs("germany", env)
    IN  IF combined = <<>> THEN Returned(<<>>)
        ELSE local_filter(combined, query, "DonorFull")

search_austria_donations(query, env) ==
    LET df == all_docs("austria", env)
    IN  IF df = <<>> THEN Returned(<<>>) ELSE local_filter(df, query, "Donor")

download_italy_data(env) ==
    drop_duplicates(all_docs("italy", env), {"Donor", "Party", "Amount", "Year"})

search_italy_donations(query, env) ==
    LET df == download_italy_data(env)
    IN  IF df = <<>> THEN Returned(<<>>) ELSE local_filter(df, query, "Donor")

\* get_netherlands_data: [raised, recs, full].  A sheet that holds the
\* 'Naam donateur' header but no 'Politieke partij' column (unexpected)
\* passes download_netherlands_ods and raises KeyError here.
get_netherlands_data(odfpy, env) ==
    LET all_data == all_docs("netherlands", env)
    IN  IF odfpy /\ \E k \in 1..NDocs : Beh(env, "netherlands", k) = "unexpected"
        THEN [raised |-> TRUE, recs |-> <<>>, full |-> FALSE]
        ELSE IF odfpy /\ all_data # <<>>
        THEN [raised |-> FALSE, recs |-> all_data, full |-> TRUE]
        ELSE [raised |-> FALSE,
              recs |-> [i \in 1..Len(NETHERLANDS_EMBEDDED_DATA) |->
                          NETHERLANDS_EMBEDDED_DATA[i]
                          @@ [Source |-> "Netherlands BZK (cached)"]],
              full |-> FALSE]

\* search_netherlands_donations: [raised, recs, full]
search_netherlands_donations(query, odfpy, env) ==
    LET data == get_netherlands_data(odfpy, env)
        found == local_filter(data.recs, query, "Donor")
    IN  IF data.raised THEN [raised |-> TRUE, recs |-> <<>>, full |-> FALSE]
        ELSE IF data.recs = <<>> THEN [raised |-> FALSE, recs |-> <<>>, full |-> FALSE]
        ELSE [raised |-> found.raised, recs |-> found.recs, full |-> data.full]

search_estonia_donations(query) == local_filter(estonia_sample_data, query, "Donor")

search_lithuania_donations(query) == local_filter(lithuania_sample_data, query, "Donor")

\* parse_eu_donations_excel raises KeyError on row[2] when the sheet has
\* fewer than three columns (unexpected); every other failure yields [].
search_eu_donations(query, env) ==
    LET df == all_docs("eu", env)
    IN  IF \E k \in 1..NDocs : Beh(env, "eu", k) = "unexpected" THEN Raised
        ELSE IF df = <<>> THEN Returned(<<>>)
        ELSE local_filter(df, query, "Donor")

max_pages == 10

\* The page loop of scrape_knab_donations.  Every failure of a page (the
\* request raising, no donations table in the answer) ends the loop.
RECURSIVE knab_pages(_, _, _, _)
knab_pages(matching, page, donations, env) ==
    IF page > max_pages THEN donations
    ELSE IF Beh(env, "latvia", page) # "ok" THEN donations
    ELSE IF page > Len(matching) THEN donations
    ELSE IF page = Len(matching) THEN Append(donations, matching[page])
    ELSE knab_pages(matching, page + 1, Append(donations, matching[page]), env)

\* A scrape that keeps nothing of the earlier pages once a page fails.
scrape_knab_donations_discarding(query, env) ==
    IF env.unit[1] = "latvia" THEN <<>>
    ELSE knab_pages(remote_match(KnabData, "Donor", query), 1, <<>>, env)

scrape_knab_donations(query, env) ==
    knab_pages(remote_match(KnabData, "Donor", query), 1, <<>>, env)

\* The boolean branch reads parsed['include'] and parsed['exclude'], keys
\* parse_boolean_query never sets: a KeyError for every boolean query.
search_latvia_donations(query, env) ==
    IF query = <<>> \/ Len(query) < 2 THEN Returned(<<>>)
    ELSE IF is_boolean_query(query)
    THEN LET parsed == parse_boolean_query(query)
         IN  IF "include" \notin DOMAIN parsed THEN Raised
             ELSE LET scraped == [k \in 1..Len(parsed.include) |->
                                     scrape_knab_donations(parsed.include[k], env)]
                      all_results == SelectSeq(scraped, LAMBDA df : df # <<>>)
                      combined == drop_duplicates(concat(all_results),
                                                  {"Donor", "Year", "Amount"})
                  IN  IF all_results = <<>> THEN Returned(<<>>)
                      ELSE Returned(SelectSeq(combined, LAMBDA r :
                               \A e \in 1..Len(parsed.exclude) :
                                   ~str_contains_na_false(r.Donor,
                                                          lower(parsed.exclude[e]))))
    ELSE Returned(scrape_knab_donations(query, env))

(***************************************************************************)
(* Row parsing (the text cells of a source row made into a record)         *)
(***************************************************************************)

AsciiLower ==
    {"a", "b", "c", "d", "e", "f", "g", "h", "i", "j", "k", "l", "m",
     "n", "o", "p", "q", "r", "s", "t", "u", "v", "w", "x", "y", "z"}

AsciiUpper ==
    {"A", "B", "C", "D", "E", "F", "G", "H", "I", "J", "K", "L", "M",
     "N", "O", "P", "Q", "R", "S", "T", "U", "V", "W", "X", "Y", "Z"}

\* The character class [\d.,] (and [\d,.]) of the amount patterns.
NumChars == Digits \cup {".", ","}

\* str.replace(old, new) for a one-character old and new.
replace_char(s, old, new) == [i \in 1..Len(s) |-> IF s[i] = old THEN new ELSE s[i]]

\* The last position of the longest run of characters of cls that starts
\* at position i (i - 1 when s[i] is not in cls).
RunEnd(s, i, cls) ==
    LET ends == {j \in (i - 1)..Len(s) : \A m \in i..j : s[m] \in cls}
    IN  CHOOSE j \in ends : \A m \in ends : m <= j

\* re.search(r'([\d.,]+)\s*Euro', text): a greedy run of [\d.,], then
\* blanks, then the word; the leftmost such run.  group is group(1).
EURO == <<"E", "u", "r", "o">>

search_amount_euro(text) ==
    LET after(i) == RunEnd(text, RunEnd(text, i, NumChars) + 1, {" "})
        starts == {i \in 1..Len(text) :
                      /\ text[i] \in NumChars
                      /\ startswith(SliceFrom(text, after(i)), EURO)}
        first == CHOOSE i \in starts : \A m \in starts : i <= m
    IN  IF starts = {} THEN [matched |-> FALSE, group |-> <<>>]
        ELSE [matched |-> TRUE,
              group |-> SubSeq(text, first, RunEnd(text, first, NumChars))]

\* re.search(r'EUR\s*([\d,.]+)', text)
EUR == <<"E", "U", "R">>

search_eur_amount(text) ==
    LET num(i) == RunEnd(text, i + 3, {" "}) + 1
        starts == {i \in 1..Len(text) :
                      /\ startswith(SliceFrom(text, i - 1), EUR)
                      /\ num(i) <= Len(text)
                      /\ text[num(i)] \in NumChars}
        first == CHOOSE i \in starts : \A m \in starts : i <= m
    IN  IF starts = {} THEN [matched |-> FALSE, group |-> <<>>]
        ELSE [matched |-> TRUE,
              group |-> SubSeq(text, num(first), RunEnd(text, num(first), NumChars))]

\* The amount of a Bundestag row: German number format; 0 when the pattern
\* does not match or float() raises.
bundestag_amount(amount_text) ==
    LET amount_match == search_amount_euro(amount_text)
        amount_str == replace_char(remove_char(amount_match.group, "."), ",", ".")
    IN  IF amount_match.matched
        THEN (IF float_of(amount_str).ok THEN float_of(amount_str).value ELSE 0)
        ELSE 0

\* re.split(r'(?<=[a-zäöü])(?=[A-ZÄÖÜ0-9])|(?<=\.)(?=[A-Z])', donor_raw)[0]:
\* the text before the first place where a capital or a digit follows a
\* small letter, or a capital follows a full stop.
first_donor_part(donor_raw) ==
    LET cuts == {p \in 1..(Len(donor_raw) - 1) :
                    \/ /\ donor_raw[p] \in AsciiLower \cup {"ä", "ö", "ü"}
                       /\ donor_raw[p + 1] \in AsciiUpper \cup {"Ä", "Ö", "Ü"} \cup Digits
                    \/ /\ donor_raw[p] = "."
                       /\ donor_raw[p + 1] \in AsciiUpper}
    IN  IF cuts = {} THEN donor_raw
        ELSE SubSeq(donor_raw, 1, CHOOSE p \in cuts : \A m \in cuts : p <= m)

\* One data row (four or more cells: party, amount, donor, date received)
\* of a Bundestag year table.  Amounts of parsed rows are in hundredths.
bundestag_row(year, current_month, cells) ==
    << [Year |-> year, Month |-> current_month, Party |-> cells[1],
        Amount |-> bundestag_amount(cells[2]),
        AmountText |-> cells[2],
        Donor |-> first_donor_part(cells[3]),
        DonorFull |-> cells[3]] >>

\* A month that lasts only to the next row.
month_until_next_row(current_month, cells) ==
    IF Len(cells) = 1 THEN cells[1] ELSE NaN

\* current_month after a row: a single-cell row is a month header.
month_after(current_month, cells) ==
    IF Len(cells) = 1 THEN cells[1] ELSE current_month

\* The row loop of scrape_bundestag_year (rows[1:], the header row left
\* out); current_month is None, a missing value, before the first header.
RECURSIVE scrape_bundestag_rows(_, _, _)
scrape_bundestag_rows(year, rows, current_month) ==
    IF rows = <<>> THEN <<>>
    ELSE (IF Len(Head(rows).cells) >= 4
          THEN bundestag_row(year, current_month, Head(rows).cells) ELSE <<>>)
         \o scrape_bundestag_rows(year, Tail(rows),
                                  month_after(current_month, Head(rows).cells))

\* re.sub(r'\d{6}\*+', '', person_raw)
RECURSIVE remove_ids(_)
remove_ids(s) ==
    IF s = <<>> THEN <<>>
    ELSE IF /\ Len(s) >= 7
            /\ \A i \in 1..6 : s[i] \in Digits
            /\ s[7] = "*"
    THEN remove_ids(SliceFrom(s, RunEnd(s, 7, {"*"})))
    ELSE <<Head(s)>> \o remove_ids(Tail(s))

\* The rows of one KNAB result page, in order, added to donations.  A
\* matched amount float() cannot read raises inside the page's try block:
\* the rows after it are not read and the page loop ends.
RECURSIVE knab_rows(_, _)
knab_rows(rows, donations) ==
    IF rows = <<>> THEN [raised |-> FALSE, recs |-> donations]
    ELSE LET cells == Head(rows)
             amount_match == search_eur_amount(cells.amount_text)
             amount == float_of(replace_char(amount_match.group, ",", "."))
             donor == strip(remove_ids(cells.person_raw))
         IN  IF amount_match.matched /\ ~amount.ok
             THEN [raised |-> TRUE, recs |-> donations]
             ELSE knab_rows(Tail(rows),
                            Append(donations,
                                   [Donor |-> donor, Party |-> cells.party,
                                    Amount |-> IF amount_match.matched
                                               THEN amount.value ELSE 0]))

\* The words that make a lone first cell a party header.
PartyWords ==
    {<<"P", "a", "r", "t", "y">>,
     <<"M", "o", "v", "e", "m", "e", "n", "t">>,
     <<"A", "l", "l", "i", "a", "n", "c", "e">>,
     <<"D", "e", "m", "o", "c", "r", "a", "t", "s">>,
     <<"C", "o", "n", "s", "e", "r", "v", "a", "t", "i", "v", "e", "s">>}

\* The row loop of parse_eu_donations_excel; a cell is '' where the sheet
\* has no value.
RECURSIVE parse_eu_rows(_, _, _, _)
parse_eu_rows(rows, year, current_party, donations) ==
    IF rows = <<>> THEN donations
    ELSE LET val0 == Head(rows).val0
             val1 == Head(rows).val1
             val2 == Head(rows).val2
             amount == float_of(remove_char(remove_char(val2, ","), " "))
         IN  IF \/ startswith(val0, <<"Ø">>)
                \/ /\ val0 # <<>> /\ val1 = <<>> /\ val2 = <<>> /\ Len(val0) > 10
                   /\ \E x \in PartyWords : contains(val0, x)
             THEN parse_eu_rows(Tail(rows), year,
                                strip(remove_char(val0, "Ø")), donations)
             ELSE IF lower(strip(val0)) = <<"d", "o", "n", "o", "r">>
             THEN parse_eu_rows(Tail(rows), year, current_party, donations)
             ELSE IF current_party # <<>> /\ val1 # <<>> /\ val2 # <<>> /\ amount.ok
             THEN parse_eu_rows(Tail(rows), year, current_party,
                                Append(donations,
                                       [Party |-> current_party,
                                        Donor |-> strip(val0),
                                        Country |-> strip(val1),
                                        Amount |-> amount.value,
                                        Year |-> year]))
             ELSE parse_eu_rows(Tail(rows), year, current_party, donations)

parse_eu_donations_excel(rows, year) == parse_eu_rows(rows, year, <<>>, <<>>)

\* One data line of the Rechnungshof CSV, its columns found in the header.
\* An amount cell read as it is written, separators left in place.
austria_amount_as_written(amount_str) == float_of(strip(amount_str))

\* The amount cell of a Rechnungshof line: German number format.
austria_amount(amount_str) ==
    float_of(replace_char(remove_char(strip(amount_str), "."), ",", "."))

austria_row(year, fields) ==
    LET party == strip(fields.party)
        donor == strip(fields.donor)
        amount == austria_amount(fields.amount)
    IN  IF party = <<>> \/ donor = <<>> \/ ~amount.ok THEN <<>>
        ELSE << [Party |-> party, Donor |-> donor,
                 Amount |-> amount.value, Year |-> year] >>

RECURSIVE parse_austria_rows(_, _)
parse_austria_rows(year, lines) ==
    IF lines = <<>> THEN <<>>
    ELSE austria_row(year, Head(lines)) \o parse_austria_rows(year, Tail(lines))

(***************************************************************************)
(* Main search flow                                                        *)
(***************************************************************************)

\* The order in which the main flow calls the adapters.
SearchOrder ==
    <<"uk", "germany", "austria", "italy", "netherlands",
      "estonia", "latvia", "lithuania", "eu">>

\* One adapter call of the main flow: [raised, recs, full]; full is the
\* second element of the Netherlands tuple and TRUE elsewhere.
adapter(j, query, odfpy, env) ==
    CASE j = "uk"          -> search_uk_donations(query, env) @@ [full |-> TRUE]
      [] j = "germany"     -> search_germany_donations(query, env) @@ [full |-> TRUE]
      [] j = "austria"     -> search_austria_donations(query, env) @@ [full |-> TRUE]
      [] j = "italy"       -> search_italy_donations(query, env) @@ [full |-> TRUE]
      [] j = "netherlands" -> search_netherlands_donations(query, odfpy, env)
      [] j = "estonia"     -> search_estonia_donations(query) @@ [full |-> TRUE]
      [] j = "latvia"      -> search_latvia_donations(query, env) @@ [full |-> TRUE]
      [] j = "lithuania"   -> search_lithuania_donations(query) @@ [full |-> TRUE]
      [] OTHER             -> search_eu_donations(query, env) @@ [full |-> TRUE]

\* What the spinner block leaves for the outcomes out[i] of the adapters
\* in SearchOrder: the first exception ends the script run, otherwise the
\* nine frames and nl_full_data are stored.  called = the adapters entered.
stored_results(out) ==
    LET bad == {i \in 1..Len(SearchOrder) : out[i].raised}
        first == IF bad = {} THEN 0 ELSE CHOOSE i \in bad : \A m \in bad : i <= m
        index(j) == CHOOSE i \in 1..Len(SearchOrder) : SearchOrder[i] = j
    IN  [crashed |-> bad # {},
         called  |-> IF bad = {} THEN SearchOrder ELSE SubSeq(SearchOrder, 1, first),
         raw_results |->
             [k \in Jurisdictions \cup {"nl_full_data"} |->
                 IF k = "nl_full_data"
                 THEN out[index("netherlands")].full
                 ELSE out[index(k)].recs]]

\* The `with st.spinner` block: the adapters run in SearchOrder.
\* failed = the jurisdiction whose fetch the environment fails.
search_all(query, odfpy, env) ==
    stored_results([i \in 1..Len(SearchOrder) |->
                       adapter(SearchOrder[i], query, odfpy, env)])
        @@ [failed |-> env.unit[1]]

(***************************************************************************)
(* Exclusion panel and display                                             *)
(***************************************************************************)

donor_columns(country) == IF country = "uk" THEN "DonorName" ELSE "Donor"

\* raw_results.get(key, pd.DataFrame())
Get(raw, key) == IF key \in DOMAIN raw THEN raw[key] ELSE <<>>

\* all_donors: every non-null donor name of the stored result sets.
all_donors_of(raw) ==
    UNION { {raw[c][k][donor_columns(c)] : k \in 1..Len(raw[c])} \ {NaN}
            : c \in DOMAIN raw \cap Jurisdictions }

\* sorted(all_donors, key=str.lower)
sorted_donors(all) == SelectSeq(<<AB, B>>, LAMBDA d : d \in all)

\* Widget state of the donor checkboxes, one per key "donor_<hash>".
\* Streamlit identifies a widget by its key and parameters: a checkbox
\* drawn again with the same key and the same `value` argument returns the
\* state the user left it in; drawn with another `value` it is a new
\* widget that starts at `value`.
NoWidget == [live |-> FALSE, value |-> TRUE, state |-> TRUE]

\* st.checkbox(label, value=value, key=key): [ret, widget]
checkbox(widget, value) ==
    IF widget.live /\ widget.value = value
    THEN [ret |-> widget.state, widget |-> widget]
    ELSE [ret |-> value, widget |-> [live |-> TRUE, value |-> value, state |-> value]]

\* A loop body that adds on an unticked box and never removes.
toggle_never_removes(excluded, donor, include) ==
    IF ~include THEN excluded \cup {donor} ELSE excluded

\* The body of the checkbox loop for one donor.
toggle(excluded, donor, include) ==
    IF ~include THEN excluded \cup {donor}
    ELSE IF donor \in excluded THEN excluded \ {donor}
    ELSE excluded

\* The checkbox loop over sorted_donors.
RECURSIVE panel(_, _, _)
panel(donors, excluded, w) ==
    IF donors = <<>> THEN [excluded |-> excluded, widgets |-> w]
    ELSE LET donor == Head(donors)
             is_excluded == donor \in excluded
             box == checkbox(w[donor], ~is_excluded)
         IN  panel(Tail(donors), toggle(excluded, donor, box.ret),
                   [w EXCEPT ![donor] = box.widget])

\* A filter that also drops the rows whose donor is null.
apply_exclusions_dropna(df, donor_col, excluded) ==
    IF df = <<>> \/ excluded = {} THEN df
    ELSE IF donor_col \in Columns(df)
    THEN SelectSeq(df, LAMBDA r : r[donor_col] \notin excluded \cup {NaN})
    ELSE df

apply_exclusions(df, donor_col, excluded) ==
    IF df = <<>> \/ excluded = {} THEN df
    ELSE IF donor_col \in Columns(df)
    THEN SelectSeq(df, LAMBDA r : r[donor_col] \notin excluded)
    ELSE df

(***************************************************************************)
(* Excel export                                                            *)
(***************************************************************************)

RECURSIVE column_sum(_, _)
column_sum(df, col) ==
    IF df = <<>> THEN 0 ELSE Head(df)[col] + column_sum(Tail(df), col)

column_min(df, col) ==
    CHOOSE v \in {df[k][col] : k \in 1..Len(df)} :
        \A k \in 1..Len(df) : v <= df[k][col]

column_max(df, col) ==
    CHOOSE v \in {df[k][col] : k \in 1..Len(df)} :
        \A k \in 1..Len(df) : v >= df[k][col]

\* One row of the "Summary by Jurisdiction" table: the stats branch for a
\* non-empty frame, the placeholder branch ("-") otherwise.
summary_row(label, data, currency, amount_col, date_col) ==
    IF data # <<>>
    THEN [jurisdiction |-> label, records |-> Len(data), placeholder |-> FALSE,
          currency |-> currency,
          total |-> IF amount_col \in Columns(data)
                    THEN column_sum(data, amount_col) ELSE 0,
          dates |-> IF date_col \in Columns(data)
                    THEN <<column_min(data, date_col), column_max(data, date_col)>>
                    ELSE <<>>]
    ELSE [jurisdiction |-> label, records |-> 0, placeholder |-> TRUE,
          currency |-> "-", total |-> 0, dates |-> <<>>]

\* A detail sheet is created only for a non-empty frame.
data_sheet(name, data) ==
    IF data # <<>> THEN << [name |-> name, rows |-> data] >> ELSE <<>>

create_excel_report(company_name, uk_data, germany_data, austria_data, italy_data, netherlands_data, latvia_data, estonia_data, lithuania_data, eu_data) ==
    [title |-> company_name,
     summary |->
        << summary_row("UK", uk_data, "GBP", "ValueNumeric", "AcceptedDate"),
           summary_row("Germany", germany_data, "EUR", "Amount", "Year"),
           summary_row("EU", eu_data, "EUR", "Amount", "Year"),
           summary_row("Austria", austria_data, "EUR", "Amount", "Year"),
           summary_row("Italy", italy_data, "EUR", "Amount", "Year"),
           summary_row("Netherlands", netherlands_data, "EUR", "Amount", "Year") >>,
     sheets |->
           data_sheet("UK - Electoral Commission", uk_data)
        \o data_sheet("Germany - Bundestag", germany_data)
        \o data_sheet("EU - APPF", eu_data)
        \o data_sheet("Austria - Rechnungshof", austria_data)
        \o data_sheet("Italy - Parliament", italy_data)
        \o data_sheet("Netherlands - BZK", netherlands_data)
        \o data_sheet("Latvia - KNAB", latvia_data)
        \o data_sheet("Estonia - ERJK", estonia_data)
        \o data_sheet("Lithuania - VRK", lithuania_data)
        \o << [name |-> "Data Sources", rows |-> <<>>] >>]

NoReport == [title |-> <<>>, summary |-> <<>>, sheets |-> <<>>]

(***************************************************************************)
(* One run of the script                                                   *)
(***************************************************************************)

EmptyDict == [k \in {} |-> <<>>]

\* What the user sees after a run.
NoView ==
    [crashed |-> FALSE, rendered |-> FALSE, warning |-> FALSE,
     searched |-> FALSE, called |-> <<>>, shown |-> EmptyDict,
     report |-> NoReport, checkboxes |-> {}, clear_button |-> FALSE,
     limited_data_notice |-> FALSE, failed |-> "none"]

\* Streamlit drops the state of every widget the finished run did not draw.
remove_stale(w, drawn) == [d \in DOMAIN w |-> IF d \in drawn THEN w[d] ELSE NoWidget]

\* A search block that leaves the exclusion set as it was.
search_block_keeping_exclusions(st, search_query, submit, found) ==
    [crashed |-> submit /\ found.crashed,
     submit |-> submit,
     called |-> IF submit THEN found.called ELSE <<>>,
     excluded_donors |-> st.excluded_donors,
     last_query |-> IF submit THEN search_query ELSE st.last_query,
     raw_results |-> IF submit /\ ~found.crashed THEN found.raw_results
                     ELSE st.raw_results,
     widgets |-> st.widgets, odfpy |-> st.odfpy,
     failed |-> IF submit THEN found.failed ELSE "none"]

\* The session state after the search block (`if search_button and
\* search_query:`): submit = the block was entered, found = what
\* search_all gave.
search_block(st, search_query, submit, found) ==
    [crashed |-> submit /\ found.crashed,
     submit |-> submit,
     called |-> IF submit THEN found.called ELSE <<>>,
     excluded_donors |-> IF submit THEN {} ELSE st.excluded_donors,
     last_query |-> IF submit THEN search_query ELSE st.last_query,
     raw_results |-> IF submit /\ ~found.crashed THEN found.raw_results
                     ELSE st.raw_results,
     widgets |-> st.widgets, odfpy |-> st.odfpy,
     failed |-> IF submit THEN found.failed ELSE "none"]

\* A display branch that shows the filtered frames and exports the stored
\* ones.
results_view_raw_export(s, all_donors, button, results) ==
    [NoView EXCEPT
        !.rendered = TRUE,
        !.searched = s.submit,
        !.called = s.called,
        !.shown = results,
        !.checkboxes = all_donors,
        !.clear_button = button,
        !.report = create_excel_report(s.last_query,
            Get(s.raw_results, "uk"), Get(s.raw_results, "germany"),
            Get(s.raw_results, "austria"), Get(s.raw_results, "italy"),
            Get(s.raw_results, "netherlands"), Get(s.raw_results, "latvia"),
            Get(s.raw_results, "estonia"), Get(s.raw_results, "lithuania"),
            Get(s.raw_results, "eu"))]

\* What the display branch puts on screen for the filtered frames.
results_view(s, all_donors, button, results) ==
    [NoView EXCEPT
        !.rendered = TRUE,
        !.searched = s.submit,
        !.called = s.called,
        !.failed = s.failed,
        !.shown = results,
        !.checkboxes = all_donors,
        !.clear_button = button,
        !.limited_data_notice =
            ~(IF "nl_full_data" \in DOMAIN s.raw_results
              THEN s.raw_results["nl_full_data"] ELSE FALSE),
        !.report = create_excel_report(s.last_query,
            results["uk"], results["germany"], results["austria"],
            results["italy"], results["netherlands"], results["latvia"],
            results["estonia"], results["lithuania"], results["eu"])]

\* The display branch from the exclusion panel on, for the exclusion set
\* and widget state the checkbox loop left (after).
filtered(s, all_donors, after, clear_clicked) ==
    IF all_donors # {} /\ after.excluded # {} /\ clear_clicked
    THEN [rerun |-> TRUE, excluded_donors |-> {}, last_query |-> s.last_query,
          raw_results |-> s.raw_results,
          widgets |-> remove_stale(after.widgets, all_donors),
          odfpy |-> s.odfpy, view |-> NoView]
    ELSE [rerun |-> FALSE, excluded_donors |-> after.excluded,
          last_query |-> s.last_query, raw_results |-> s.raw_results,
          widgets |-> remove_stale(after.widgets, all_donors),
          odfpy |-> s.odfpy,
          view |-> results_view(s, all_donors,
                      all_donors # {} /\ after.excluded # {},
                      [c \in Jurisdictions |->
                          apply_exclusions(Get(s.raw_results, c), donor_columns(c),
                                           after.excluded)])]

\* The checkbox loop of the display branch, skipped when no donor is known.
exclusion_panel(s, all_donors) ==
    IF all_donors # {}
    THEN panel(sorted_donors(all_donors), s.excluded_donors, s.widgets)
    ELSE [excluded |-> s.excluded_donors, widgets |-> s.widgets]

\* The display branch (`if st.session_state.raw_results and
\* st.session_state.last_query:` to the download button) for the session
\* state s; clear_clicked = the "Clear all exclusions" button was pressed.
\* rerun = TRUE: the branch ended in st.rerun().
display(s, all_donors, clear_clicked) ==
    filtered(s, all_donors, exclusion_panel(s, all_donors), clear_clicked)

\* The script below the search block, for the session state s the block
\* left.
below_search(s, search_button, clear_clicked) ==
    IF s.crashed
    THEN \* uncaught exception: the run ended inside the search block
         [rerun |-> FALSE, excluded_donors |-> s.excluded_donors,
          last_query |-> s.last_query, raw_results |-> s.raw_results,
          widgets |-> s.widgets, odfpy |-> s.odfpy,
          view |-> [NoView EXCEPT !.crashed = TRUE, !.searched = TRUE,
                                  !.called = s.called, !.failed = s.failed]]
    ELSE IF DOMAIN s.raw_results # {} /\ s.last_query # <<>>
    THEN display(s, all_donors_of(s.raw_results), clear_clicked)
    ELSE [rerun |-> FALSE, excluded_donors |-> s.excluded_donors,
          last_query |-> s.last_query, raw_results |-> s.raw_results,
          widgets |-> remove_stale(s.widgets, {}), odfpy |-> s.odfpy,
          view |-> [NoView EXCEPT !.warning = search_button]]

NoSearch ==
    [crashed |-> FALSE, called |-> <<>>, raw_results |-> EmptyDict, failed |-> "none"]

\* One run of the script for the stored session state st and the widget
\* values of this run.  Returns the session state and the view the run
\* leaves.
script(st, search_query, search_button, clear_clicked, env) ==
    below_search(
        search_block(st, search_query, search_button /\ search_query # <<>>,
                     IF search_button /\ search_query # <<>>
                     THEN search_all(search_query, st.odfpy, env) ELSE NoSearch),
        search_button, clear_clicked)

\* st.rerun(): the script starts again with no button pressed.
rerun(first, search_query) ==
    IF first.rerun THEN script(first, search_query, FALSE, FALSE, NoFailure)
    ELSE first

\* A user event and every script run it causes.
run(st, search_query, search_button, clear_clicked, env) ==
    rerun(script(st, search_query, search_button, clear_clicked, env), search_query)

(***************************************************************************)
(* State                                                                   *)
(***************************************************************************)

VARIABLES
    search_query,     \* the text in the search box
    excluded_donors,  \* st.session_state.excluded_donors
    raw_results,      \* st.session_state.raw_results
    last_query,       \* st.session_state.last_query
    widgets,          \* Streamlit's state of the donor checkboxes
    odfpy,            \* ODFPY_AVAILABLE
    view,             \* what the last run put on screen
    h                 \* one call of a function under test: arguments and results

vars == <<search_query, excluded_donors, raw_results, last_query, widgets, odfpy,
          view, h>>

\* The queries a user types.
Q_ab      == <<"a", "b">>
Q_b       == <<"b">>
Q_or      == <<"a", "b", " ", "o", "r", " ", "b">>
Q_not     == <<"N", "O", "T", " ", "a", "b">>
Q_paren   == <<"(", "b">>
Queries   == {<<>>, Q_ab, Q_b, Q_or, Q_not, Q_paren}

\* The queries typed in the session.
SessionQueries == {<<>>, Q_ab, Q_b, Q_or}

\* The failing fetches met in the session: a timeout or connection
\* failure (requests.get raising) of the first fetch of a jurisdiction.
SessionEnvs == {e \in Envs : e = NoFailure \/ (e.beh = "timeout" /\ e.unit[2] = 1)}

DonorNames == {AB, B}

session ==
    [excluded_donors |-> excluded_donors, raw_results |-> raw_results,
     last_query |-> last_query, widgets |-> widgets, odfpy |-> odfpy]

NoCall == [op |-> "none", step |-> 0]

SessionInit ==
    /\ search_query = <<>>
    /\ excluded_donors = {}
    /\ raw_results = EmptyDict
    /\ last_query = <<>>
    /\ widgets = [d \in DonorNames |-> NoWidget]
    /\ odfpy \in BOOLEAN
    /\ view = NoView

Init == SessionInit /\ h = NoCall

Commit(next) ==
    /\ excluded_donors' = next.excluded_donors
    /\ raw_results' = next.raw_results
    /\ last_query' = next.last_query
    /\ widgets' = next.widgets
    /\ view' = next.view
    /\ odfpy' = odfpy
    /\ h' = h

\* The user changes the text of the search box.
EditQuery ==
    \E q \in SessionQueries \ {search_query} :
        /\ search_query' = q
        /\ \E next \in {run(session, q, FALSE, FALSE, NoFailure)} : Commit(next)

\* The user presses the Search button.
PressSearch ==
    \E env \in (IF search_query = <<>> THEN {NoFailure} ELSE SessionEnvs) :
        /\ search_query' = search_query
        /\ \E next \in {run(session, search_query, TRUE, FALSE, env)} : Commit(next)

\* The user ticks or unticks the checkbox of a donor on screen.
ClickCheckboxOf(donor) ==
        /\ donor \in view.checkboxes
        /\ search_query' = search_query
        /\ \E next \in {run([session EXCEPT !.widgets[donor].state = ~@],
                              search_query, FALSE, FALSE, NoFailure)} : Commit(next)

ClickCheckbox == \E donor \in DonorNames : ClickCheckboxOf(donor)

\* The user presses "Clear all exclusions".
PressClearAll ==
    /\ view.clear_button
    /\ search_query' = search_query
    /\ \E next \in {run(session, search_query, FALSE, TRUE, NoFailure)} : Commit(next)

Next == EditQuery \/ PressSearch \/ ClickCheckbox \/ PressClearAll

Spec == Init /\ [][Next]_vars

(***************************************************************************)
(* Single functions, called on arguments drawn from bounded sets           *)
(***************************************************************************)

\* Longest frame handed to a function under test.
MaxRows == 3

SessionVars == <<search_query, excluded_donors, raw_results, last_query, widgets, odfpy, view>>

\* A donor name that shares no letter with the others.
ON == <<"O", "n">>

\* Frames of at most MaxRows rows with a Donor column (null donors
\* included); row k carries Amount k.
Frames ==
    UNION { {[k \in 1..n |-> [Donor |-> f[k], Amount |-> k]] :
                f \in [1..n -> DonorNames \cup {ON, NaN}]} : n \in 0..MaxRows }

WidgetStates == {NoWidget} \cup [live : {TRUE}, value : BOOLEAN, state : BOOLEAN]

AdapterCalls ==
    {[op |-> "adapter", step |-> 0, query |-> q, env |-> e] :
        q \in Queries \ {<<>>}, e \in Envs}

ExclusionCalls ==
    {[op |-> "apply_exclusions", step |-> 0, df |-> df, donor_col |-> c,
      excluded |-> x] :
        df \in Frames, c \in {"Donor", "DonorName"}, x \in SUBSET DonorNames}

PanelCalls ==
    {[op |-> "panel", step |-> 0, all_donors |-> a, excluded |-> x, widgets |-> w] :
        a \in (SUBSET DonorNames) \ {{}}, x \in SUBSET DonorNames,
        w \in [DonorNames -> WidgetStates]}

\* Search terms: plain ones and ones holding characters that are special
\* in a regular expression.
Terms ==
    { <<"b">>, <<"A", "B">>, <<"n">>, <<".">>, <<"(", "b">>, <<"b", "*">>,
      <<"b", "+">> }

\* Parsed query nodes, as parse_boolean_query builds them.
Term(t) == [type |-> "TERM", term |-> t, terms |-> <<>>]
Not(t) == [type |-> "NOT", term |-> t, terms |-> <<>>]
Or(nodes) == [type |-> "OR", term |-> <<>>, terms |-> nodes]

FilterCalls ==
    {[op |-> "boolean_filter", step |-> 0, df |-> df, a |-> a, b |-> b] :
        df \in Frames, a \in Terms, b \in Terms}

\* Longest query under test, in tokens.
MaxTokens == 4

\* The pieces the queries under test are made of.
Tokens ==
    { <<"a">>, <<"ß">>, <<" ">>, <<" ", "O", "R", " ">>, <<" ", "o", "r", " ">>,
      <<"O", "R">>, <<"N", "O", "T", " ">>, <<"N", "o", "t">> }

RECURSIVE Texts(_)
Texts(n) ==
    IF n = 0 THEN {<<>>}
    ELSE Texts(n - 1) \cup {t \o k : t \in Texts(n - 1), k \in Tokens}

ParseCalls == {[op |-> "parse", step |-> 0, query |-> q] : q \in Texts(MaxTokens)}

\* Source rows as text cells: amounts that read as numbers, amounts that do
\* not, donors present and absent.
MaxRawRows == 2

BundestagCells ==
    {[cells |-> << <<"P">>, amount_text, donor_raw, <<"1", ".", "2", ".">> >>] :
        amount_text \in {<<"5", " ", "E", "u", "r", "o">>,
                         <<"1", ".", "0", "0", "0", " ", "E", "u", "r", "o">>,
                         <<"n", "/", "a">>, <<".", " ", "E", "u", "r", "o">>},
        donor_raw \in {AB, <<>>, <<"A", "b", "O", "n">>}}

KnabCells ==
    [party : {<<"P">>},
     amount_text : {<<"E", "U", "R", " ", "5">>, <<"E", "U", "R", " ", "1", ",", "5", "0">>,
                    <<"E", "U", "R", " ", "1", ".", "0", "0", "0", ",", "5", "0">>, <<"n", "/", "a">>},
     person_raw : {AB, <<"1", "2", "3", "4", "5", "6", "*", "*">>,
                   <<"1", "2", "3", "4", "5", "6", "*", "A", "b">>}]

EuCells ==
    {[val0 |-> <<"Ø", "P">>, val1 |-> <<>>, val2 |-> <<>>]}
    \cup [val0 : {AB, <<>>}, val1 : {<<"D", "E">>},
          val2 : {<<"5">>, <<"1", ",", "0", "0", "0">>, <<"n", "/", "a">>}]

AustriaFields ==
    [party : {<<"P">>, <<>>}, donor : {AB, <<>>},
     amount : {<<"5">>, <<"1", ".", "0", "0", "0", ",", "5", "0">>, <<"n", "/", "a">>}]

ScrapedSources == {"germany", "latvia", "eu", "austria"}

RawRows(source) ==
    CASE source = "germany" -> BundestagCells
      [] source = "latvia"  -> KnabCells
      [] source = "eu"      -> EuCells
      [] OTHER              -> AustriaFields

RowSeqs(source) == UNION {[1..n -> RawRows(source)] : n \in 0..MaxRawRows}

RowCalls ==
    UNION {{[op |-> "rows", step |-> 0, source |-> src, rows |-> rs, query |-> q] :
               q \in {Q_ab, Q_not}, rs \in RowSeqs(src)} :
           src \in ScrapedSources}

AggregateCalls ==
    {[op |-> "aggregate", step |-> 0, query |-> q, env |-> e] :
        q \in {Q_or, Q_not}, e \in Envs}

\* Amounts written in a source's convention: a leading group of one to
\* three digits, further groups of three digits with or without the
\* thousands separator, and no decimals or two.
MaxGroups == 1

AmountDigits == {"0", "1"}

LeadGroups ==
    {<<"0">>} \cup UNION {{<<"1">> \o r : r \in [1..n -> AmountDigits]} : n \in 0..2}

AmountCalls ==
    {[op |-> "amount", step |-> 0, convention |-> c, lead |-> l, groups |-> g,
      decimals |-> d, grouped |-> s] :
        c \in {"austria", "germany", "uk"}, l \in LeadGroups,
        g \in UNION {[1..k -> [1..3 -> AmountDigits]] : k \in 0..MaxGroups},
        d \in {<<>>} \cup [1..2 -> AmountDigits], s \in BOOLEAN}

\* The text of the amount cell.
written_amount(c) ==
    LET thousands == IF c.convention = "uk" THEN "," ELSE "."
        mark == IF c.convention = "uk" THEN "." ELSE ","
        number == c.lead
                  \o concat([k \in 1..Len(c.groups) |->
                               (IF c.grouped THEN <<thousands>> ELSE <<>>) \o c.groups[k]])
                  \o (IF c.decimals = <<>> THEN <<>> ELSE <<mark>> \o c.decimals)
    IN  CASE c.convention = "uk"      -> <<"£">> \o number
          [] c.convention = "germany" -> number \o <<" ">> \o EURO
          [] OTHER                    -> number

\* Grouped tables: label rows, data rows, and rows that are neither.
MaxTableRows == 4

BundestagTableRows ==
    {[cells |-> << <<"J", "a", "n", "u", "a", "r", "y">> >>], [cells |-> << <<"F", "e", "b", "r", "u", "a", "r", "y">> >>],
     [cells |-> << <<"P">>, <<"5", " ", "E", "u", "r", "o">>, AB, <<"1", ".", "2", ".">> >>],
     [cells |-> << <<"P">>, <<"5", " ", "E", "u", "r", "o">>, B, <<"1", ".", "2", ".">>, <<"x">> >>],
     [cells |-> << <<"P">>, <<"5", " ", "E", "u", "r", "o">> >>]}

EuTableRows ==
    {[val0 |-> <<"Ø", "P">>, val1 |-> <<>>, val2 |-> <<>>],
     [val0 |-> <<"Ø", "Q">>, val1 |-> <<>>, val2 |-> <<>>],
     [val0 |-> AB, val1 |-> <<"D", "E">>, val2 |-> <<"5">>],
     [val0 |-> <<"D", "o", "n", "o", "r">>, val1 |-> <<"C", "o", "u", "n", "t", "r", "y">>, val2 |-> <<"A", "m", "o", "u", "n", "t">>],
     [val0 |-> AB, val1 |-> <<>>, val2 |-> <<>>]}

TableCalls ==
    UNION {{[op |-> "table", step |-> 0, source |-> src, rows |-> rs] :
               rs \in UNION {[1..n -> IF src = "germany" THEN BundestagTableRows
                                      ELSE EuTableRows] : n \in 0..MaxTableRows}} :
           src \in {"germany", "eu"}}

\* Queries typed with and without blanks around them.
LocalQueries ==
    {<<"b">>, <<"b", " ">>, <<" ", "A", "b">>, <<"N", "O", "T", " ", "b">>, <<" ", "N", "O", "T", " ", "b">>, <<"n", " ", "o", "r", " ", "b">>}

LocalCalls ==
    {[op |-> "local", step |-> 0, df |-> df, query |-> q] :
        df \in Frames, q \in LocalQueries}

FnInit ==
    /\ SessionInit
    /\ \/ h \in AdapterCalls
       \/ /\ odfpy = FALSE
          /\ \/ h \in ExclusionCalls
             \/ h \in PanelCalls
             \/ h \in FilterCalls
             \/ h \in ParseCalls
             \/ h \in RowCalls
             \/ h \in LocalCalls
             \/ h \in TableCalls
             \/ h \in AmountCalls
             \/ h \in AggregateCalls

\* One adapter is called with the query, as the main flow calls it.
CallAdapter ==
    /\ h.op = "adapter" /\ h.step = 0
    /\ \E j \in Jurisdictions :
          h' = [op |-> "adapter", step |-> 1, query |-> h.query, env |-> h.env,
                jurisdiction |-> j, out |-> adapter(j, h.query, odfpy, h.env)]
    /\ UNCHANGED SessionVars

\* apply_exclusions on a frame, then on its own result.
CallApplyExclusions ==
    /\ h.op = "apply_exclusions" /\ h.step = 0
    /\ h' = [h EXCEPT !.step = 1] @@
            [out1 |-> apply_exclusions(h.df, h.donor_col, h.excluded)]
    /\ UNCHANGED SessionVars

CallApplyExclusionsAgain ==
    /\ h.op = "apply_exclusions" /\ h.step = 1
    /\ h' = [h EXCEPT !.step = 2] @@
            [out2 |-> apply_exclusions(h.out1, h.donor_col, h.excluded)]
    /\ UNCHANGED SessionVars

\* The checkbox loop over the donors on screen, then the same loop in the
\* next run with no checkbox touched in between.
DrawPanel ==
    /\ h.op = "panel" /\ h.step = 0
    /\ h' = [h EXCEPT !.step = 1] @@
            [out1 |-> panel(sorted_donors(h.all_donors), h.excluded, h.widgets)]
    /\ UNCHANGED SessionVars

DrawPanelAgain ==
    /\ h.op = "panel" /\ h.step = 1
    /\ h' = [h EXCEPT !.step = 2] @@
            [out2 |-> panel(sorted_donors(h.all_donors), h.out1.excluded,
                            h.out1.widgets)]
    /\ UNCHANGED SessionVars

\* apply_boolean_filter on one frame for TERM a, TERM b, a OR b and NOT a.
CallBooleanFilter ==
    /\ h.op = "boolean_filter" /\ h.step = 0
    /\ h' = [h EXCEPT !.step = 1] @@
            [term_a |-> apply_boolean_filter(h.df, Term(h.a), "Donor", {}),
             term_b |-> apply_boolean_filter(h.df, Term(h.b), "Donor", {}),
             either |-> apply_boolean_filter(h.df, Or(<<Term(h.a), Term(h.b)>>),
                                             "Donor", {}),
             not_a  |-> apply_boolean_filter(h.df, Not(h.a), "Donor", {})]
    /\ UNCHANGED SessionVars

CallParse ==
    /\ h.op = "parse" /\ h.step = 0
    /\ h' = [h EXCEPT !.step = 1] @@ [out |-> parse_boolean_query(h.query)]
    /\ UNCHANGED SessionVars

\* The records an adapter makes of the rows of one document.
parse_rows(source, rows) ==
    CASE source = "germany" -> Returned(scrape_bundestag_rows(2025, rows, NaN))
      [] source = "latvia"  -> knab_rows(rows, <<>>)
      [] source = "eu"      -> Returned(parse_eu_donations_excel(rows, 2025))
      [] OTHER              -> Returned(parse_austria_rows(2025, rows))

\* The adapter's result for the query on one document of the given rows:
\* KNAB has matched the query on its server, the others filter locally.
search_rows(source, rows, query) ==
    LET df == parse_rows(source, rows).recs
    IN  IF source = "latvia" \/ df = <<>> THEN Returned(df)
        ELSE local_filter(df, query, IF source = "germany" THEN "DonorFull" ELSE "Donor")

CallRows ==
    /\ h.op = "rows" /\ h.step = 0
    /\ h' = [h EXCEPT !.step = 1] @@
            [parsed |-> parse_rows(h.source, h.rows),
             out |-> search_rows(h.source, h.rows, h.query)]
    /\ UNCHANGED SessionVars

\* The aggregation steps of the two sources that remove duplicates.
CallAggregate ==
    /\ h.op = "aggregate" /\ h.step = 0
    /\ h' = [h EXCEPT !.step = 1] @@
            [uk |-> uk_combined(h.query, h.env),
             italy |-> download_italy_data(h.env)]
    /\ UNCHANGED SessionVars

\* The amount cell parsed by the adapter of its source.
CallParseAmount ==
    /\ h.op = "amount" /\ h.step = 0
    /\ h' = [h EXCEPT !.step = 1] @@
            [text |-> written_amount(h),
             out |-> CASE h.convention = "uk" -> uk_value(written_amount(h))
                       [] h.convention = "germany" ->
                            [ok |-> TRUE, value |-> bundestag_amount(written_amount(h))]
                       [] OTHER -> austria_amount(written_amount(h))]
    /\ UNCHANGED SessionVars

\* The rows of a grouped table made into records.
CallParseTable ==
    /\ h.op = "table" /\ h.step = 0
    /\ h' = [h EXCEPT !.step = 1] @@
            [out |-> IF h.source = "germany"
                     THEN scrape_bundestag_rows(2025, h.rows, NaN)
                     ELSE parse_eu_donations_excel(h.rows, 2025)]
    /\ UNCHANGED SessionVars

\* The tail of a locally filtering adapter on its data, and the boolean
\* filter on the parsed query.
CallLocalFilter ==
    /\ h.op = "local" /\ h.step = 0
    /\ h' = [h EXCEPT !.step = 1] @@
            [out |-> local_filter(h.df, h.query, "Donor"),
             by_filter |-> apply_boolean_filter(h.df, parse_boolean_query(h.query),
                                                "Donor", {})]
    /\ UNCHANGED SessionVars

FnNext ==
    \/ CallLocalFilter
    \/ CallParseTable
    \/ CallParseAmount
    \/ CallAggregate
    \/ CallRows
    \/ CallParse
    \/ CallBooleanFilter
    \/ CallAdapter
    \/ CallApplyExclusions
    \/ CallApplyExclusionsAgain
    \/ DrawPanel
    \/ DrawPanelAgain

SpecFn == FnInit /\ [][FnNext]_vars

(***************************************************************************)
(* The page loop of scrape_knab_donations, step by step                    *)
(***************************************************************************)

\* The loop limits the scrape is run with: small ones and the default.
MaxPagesArg == 3

ScrapeLimits == (1..MaxPagesArg) \cup {max_pages}

\* What the request of one page meets:
\*   timeout    requests.get raises
\*   no_table   an answer without the donations table (or without tbody)
\*   no_rows    a table without rows
\*   rows_next  result rows and a pagination block with the '>' link
\*   rows_last  result rows, no '>' link or no pagination block
\*   bad_row    result rows, the second with an amount float() cannot read
PageResponses == {"timeout", "no_table", "no_rows", "rows_next", "rows_last", "bad_row"}

\* The records the rows of a page add to donations before the page is left.
page_rows(resp, page) ==
    CASE resp \in {"rows_next", "rows_last"} ->
           << [Page |-> page, Row |-> 1], [Page |-> page, Row |-> 2] >>
      [] resp = "bad_row" -> << [Page |-> page, Row |-> 1] >>
      [] OTHER -> <<>>

\* A loop that goes on after every page with result rows.
knab_continues_after_rows(resp) == resp \in {"rows_next", "rows_last"}

\* The loop body reaches time.sleep: no break, no exception.
knab_continues(resp) == resp = "rows_next"

\* A range that holds one page more than max_pages.
in_range_and_one_more(page, limit) == page <= limit + 1

\* page in range(1, max_pages + 1)
in_range(page, limit) == page <= limit

ScrapeCalls ==
    {[op |-> "scrape", step |-> 0, max_pages |-> m, page |-> 1, pc |-> "get",
      requested |-> <<>>, responses |-> <<>>, donations |-> <<>>, log |-> <<>>] :
        m \in ScrapeLimits}

ScrapeInit == SessionInit /\ odfpy = FALSE /\ h \in ScrapeCalls

\* requests.get of the current page and the handling of its answer.
KnabGet ==
    /\ h.op = "scrape" /\ h.pc = "get"
    /\ \E resp \in PageResponses :
          h' = [h EXCEPT !.requested = Append(@, h.page),
                         !.responses = Append(@, resp),
                         !.log = Append(@, "get"),
                         !.donations = @ \o page_rows(resp, h.page),
                         !.pc = IF knab_continues(resp) THEN "sleep" ELSE "return"]
    /\ UNCHANGED SessionVars

\* time.sleep(0.5), then the next page of the range if there is one.
KnabSleep ==
    /\ h.op = "scrape" /\ h.pc = "sleep"
    /\ h' = [h EXCEPT !.log = Append(@, "sleep"),
                      !.page = @ + 1,
                      !.pc = IF in_range(h.page + 1, h.max_pages) THEN "get" ELSE "return"]
    /\ UNCHANGED SessionVars

\* return pd.DataFrame(donations)
KnabReturn ==
    /\ h.op = "scrape" /\ h.pc = "return"
    /\ h' = [h EXCEPT !.pc = "done", !.step = 1]
    /\ UNCHANGED SessionVars

ScrapeNext == KnabGet \/ KnabSleep \/ KnabReturn

\* Every request returns or raises within its timeout of 30 seconds and
\* the sleep ends: a step that can be taken is taken.
SpecScrape == ScrapeInit /\ [][ScrapeNext]_vars /\ WF_vars(ScrapeNext)

(***************************************************************************)
(* Properties                                                              *)
(***************************************************************************)

\* The name of the detail sheet of a jurisdiction.
SheetName(j) ==
    CASE j = "uk"          -> "UK - Electoral Commission"
      [] j = "germany"     -> "Germany - Bundestag"
      [] j = "eu"          -> "EU - APPF"
      [] j = "austria"     -> "Austria - Rechnungshof"
      [] j = "italy"       -> "Italy - Parliament"
      [] j = "netherlands" -> "Netherlands - BZK"
      [] j = "latvia"      -> "Latvia - KNAB"
      [] j = "estonia"     -> "Estonia - ERJK"
      [] OTHER             -> "Lithuania - VRK"

\* The label of a jurisdiction in the first column of the Summary sheet.
SummaryLabel(j) ==
    CASE j = "uk"          -> "UK"
      [] j = "germany"     -> "Germany"
      [] j = "eu"          -> "EU"
      [] j = "austria"     -> "Austria"
      [] j = "italy"       -> "Italy"
      [] j = "netherlands" -> "Netherlands"
      [] j = "latvia"      -> "Latvia"
      [] j = "estonia"     -> "Estonia"
      [] OTHER             -> "Lithuania"

AmountColumn(j) == IF j = "uk" THEN "ValueNumeric" ELSE "Amount"
DateColumn(j) == IF j = "uk" THEN "AcceptedDate" ELSE "Year"
Currency(j) == IF j = "uk" THEN "GBP" ELSE "EUR"

HasSheet(report, j) ==
    \E i \in 1..Len(report.sheets) : report.sheets[i].name = SheetName(j)

\* The records of the detail sheet of a jurisdiction, <<>> without one.
Exported(report, j) ==
    IF HasSheet(report, j)
    THEN report.sheets[CHOOSE i \in 1..Len(report.sheets) :
                           report.sheets[i].name = SheetName(j)].rows
    ELSE <<>>

\* The Summary rows of a jurisdiction.
SummaryRows(report, j) ==
    {i \in 1..Len(report.summary) : report.summary[i].jurisdiction = SummaryLabel(j)}

\* The positions of the records of df whose donor is in the set x.
Removed(df, donor_col, x) ==
    {k \in 1..Len(df) : donor_col \in DOMAIN df[k] /\ df[k][donor_col] \in x}

\* out holds the records of df at the positions keep, in the order of df.
IsRestriction(out, df, keep) ==
    /\ Len(out) = Cardinality(keep)
    /\ \A k \in keep : out[Cardinality({m \in keep : m <= k})] = df[k]

SumOver(df, rows, col) == column_sum(Take(df, rows), col)

\* C1: every adapter, for every query and every behaviour of the sources,
\* returns a record set and raises no exception.
C1_AdaptersNeverRaise ==
    (h.op = "adapter" /\ h.step = 1) => ~h.out.raised

\* C2: in a search submission all nine adapters run in the fixed order, a
\* failing fetch changes the result of its own jurisdiction only, and the
\* results of all nine jurisdictions are stored and displayed.
C2_FailureStaysInItsJurisdiction ==
    view.searched =>
        /\ ~view.crashed
        /\ view.called = SearchOrder
        /\ view.rendered
        /\ Jurisdictions \subseteq DOMAIN raw_results
        /\ \A j \in Jurisdictions \ {view.failed} :
              raw_results[j] = adapter(j, last_query, odfpy, NoFailure).recs

\* C3: when the results of a non-empty Search submission are filtered for
\* display and export, the exclusion set is empty.
C3_SubmissionStartsWithNoExclusions ==
    (view.searched /\ view.rendered) =>
        /\ excluded_donors = {}
        /\ \A j \in Jurisdictions : view.shown[j] = raw_results[j]

\* C4: in every render pass the record set shown for a jurisdiction and the
\* one exported for it are the same: the stored result without the records
\* whose donor is in the exclusion set left by that pass's checkbox loop.
C4_ShownEqualsExported ==
    view.rendered =>
        \A j \in Jurisdictions :
            /\ IsRestriction(view.shown[j], raw_results[j],
                   (1..Len(raw_results[j])) \
                       Removed(raw_results[j], donor_columns(j), excluded_donors))
            /\ Exported(view.report, j) = view.shown[j]

\* A render pass in which an exclusion removes records of one jurisdiction
\* and leaves others, shown and exported.
C4_Witness ==
    /\ view.rendered
    /\ excluded_donors # {}
    /\ \E j \in Jurisdictions :
          /\ Len(view.shown[j]) < Len(raw_results[j])
          /\ HasSheet(view.report, j)

\* C5: the Summary sheet has one row for each of the nine jurisdictions,
\* with its record count, its total in its own currency and its date range.
C5_SummaryRowPerJurisdiction ==
    view.rendered =>
        \A j \in Jurisdictions :
            /\ Cardinality(SummaryRows(view.report, j)) = 1
            /\ \A i \in SummaryRows(view.report, j) :
                  LET row == view.report.summary[i]
                      data == view.shown[j]
                  IN  /\ row.records = Len(data)
                      /\ data # <<>> =>
                            /\ row.currency = Currency(j)
                            /\ row.total = SumOver(data, 1..Len(data), AmountColumn(j))
                            /\ row.dates = <<column_min(data, DateColumn(j)),
                                             column_max(data, DateColumn(j))>>

\* C6: a jurisdiction with no record has a summary row with count 0 and
\* placeholders and no detail sheet; a detail sheet exists exactly for the
\* jurisdictions with at least one record.
C6_EmptyJurisdictionRow ==
    view.rendered =>
        \A j \in Jurisdictions :
            /\ HasSheet(view.report, j) <=> view.shown[j] # <<>>
            /\ view.shown[j] = <<>> =>
                  /\ SummaryRows(view.report, j) # {}
                  /\ \A i \in SummaryRows(view.report, j) :
                        /\ view.report.summary[i].records = 0
                        /\ view.report.summary[i].placeholder

\* C7: when the excluded donors remove the records R from a jurisdiction's
\* result, its summary count is that of the stored result less the number
\* of records in R, its total is less by the sum of their amounts, and
\* its detail sheet holds every record but those of R.
C7_ExclusionReducesSummary ==
    view.rendered =>
        \A j \in Jurisdictions :
            LET raw == raw_results[j]
                R == Removed(raw, donor_columns(j), excluded_donors)
            IN  R # {} =>
                  /\ SummaryRows(view.report, j) # {}
                  /\ \A i \in SummaryRows(view.report, j) :
                        /\ view.report.summary[i].records = Len(raw) - Cardinality(R)
                        /\ view.report.summary[i].total =
                              SumOver(raw, 1..Len(raw), AmountColumn(j))
                                  - SumOver(raw, R, AmountColumn(j))
                  /\ IsRestriction(Exported(view.report, j), raw, (1..Len(raw)) \ R)

\* C8: apply_exclusions returns exactly the records whose donor is not in
\* the exclusion set, in their input order, and applied to its own result
\* with the same set it returns that result.
C8_ApplyExclusions ==
    h.op = "apply_exclusions" =>
        /\ h.step >= 1 =>
              IsRestriction(h.out1, h.df,
                  (1..Len(h.df)) \ Removed(h.df, h.donor_col, h.excluded))
        /\ h.step = 2 => h.out2 = h.out1

\* apply_exclusions has removed some records and kept others, and has run
\* a second time.
C8_Witness ==
    /\ h.op = "apply_exclusions"
    /\ h.step = 2
    /\ h.out1 # <<>>
    /\ Len(h.out1) < Len(h.df)
    /\ \E k \in 1..Len(h.out1) : h.out1[k].Donor = NaN

\* What the checkbox of a donor returns in a run that starts with the
\* exclusion set x and the widget state w.
Included(w, x, donor) == checkbox(w[donor], donor \notin x).ret

\* C9: after the checkbox loop a donor on screen is in the exclusion set
\* exactly when its box is unticked, no other donor's membership changes,
\* and the same loop run again leaves the set as it is.
C9_Toggle ==
    h.op = "panel" =>
        /\ h.step >= 1 =>
              /\ \A d \in h.all_donors :
                    d \in h.out1.excluded <=> ~Included(h.widgets, h.excluded, d)
              /\ \A d \in DonorNames \ h.all_donors :
                    d \in h.out1.excluded <=> d \in h.excluded
        /\ h.step = 2 => h.out2.excluded = h.out1.excluded

\* One loop has added a donor and removed another, and has run again.
C9_Witness ==
    /\ h.op = "panel"
    /\ h.step = 2
    /\ h.excluded \ h.out1.excluded # {}
    /\ h.out1.excluded \ h.excluded # {}

\* C10: pressing Search with an empty query calls no adapter, leaves the
\* stored query, the stored results and the exclusion set as they are and
\* shows the advisory message, whatever the session holds.
C10_EmptyQueryRejected ==
    [][(PressSearch /\ search_query = <<>>) =>
          /\ view'.called = <<>>
          /\ UNCHANGED <<last_query, raw_results, excluded_donors>>
          /\ view'.warning]_vars

\* The positions of the records of df that are in the record sequence recs.
PositionsIn(df, recs) ==
    {k \in 1..Len(df) : \E i \in 1..Len(recs) : recs[i] = df[k]}

\* C11: OR of TERM a and TERM b returns the records that TERM a or TERM b
\* returns, each once and in input order; it raises exactly when one of
\* the two term filters raises.
C11_OrIsUnion ==
    (h.op = "boolean_filter" /\ h.step = 1) =>
        /\ h.either.raised <=> (h.term_a.raised \/ h.term_b.raised)
        /\ ~h.either.raised =>
              IsRestriction(h.either.recs, h.df,
                  PositionsIn(h.df, h.term_a.recs) \cup PositionsIn(h.df, h.term_b.recs))

\* Two terms that each keep a record the other does not, and a record
\* that neither keeps.
C11_Witness ==
    /\ h.op = "boolean_filter" /\ h.step = 1
    /\ ~h.either.raised
    /\ PositionsIn(h.df, h.term_a.recs) \ PositionsIn(h.df, h.term_b.recs) # {}
    /\ PositionsIn(h.df, h.term_b.recs) \ PositionsIn(h.df, h.term_a.recs) # {}
    /\ Len(h.either.recs) < Len(h.df)

\* C12: the results for NOT t and TERM t are disjoint and together hold
\* every input record once; a record with a null field is in the NOT
\* result and not in the TERM result.
C12_NotIsComplement ==
    (h.op = "boolean_filter" /\ h.step = 1 /\ ~h.term_a.raised) =>
        /\ ~h.not_a.raised
        /\ PositionsIn(h.df, h.term_a.recs) \cap PositionsIn(h.df, h.not_a.recs) = {}
        /\ PositionsIn(h.df, h.term_a.recs) \cup PositionsIn(h.df, h.not_a.recs)
              = 1..Len(h.df)
        /\ Len(h.term_a.recs) + Len(h.not_a.recs) = Len(h.df)
        /\ \A k \in 1..Len(h.df) :
              h.df[k].Donor = NaN =>
                  /\ k \in PositionsIn(h.df, h.not_a.recs)
                  /\ k \notin PositionsIn(h.df, h.term_a.recs)

\* C13: TERM t keeps exactly the records whose field contains t as a
\* literal substring, letter case ignored, whatever characters t holds;
\* a record with a null field is never kept.
C13_TermIsLiteralSubstring ==
    (h.op = "boolean_filter" /\ h.step = 1) =>
        /\ ~h.term_a.raised
        /\ IsRestriction(h.term_a.recs, h.df,
              {k \in 1..Len(h.df) :
                  /\ h.df[k].Donor # NaN
                  /\ contains(lower(h.df[k].Donor), lower(h.a))})

\* The text q holds ' OR ', in any letter case, at offset i.
IsOrAt(q, i) ==
    /\ i + 4 <= Len(q)
    /\ q[i + 1] = " "
    /\ q[i + 2] \in {"O", "o"}
    /\ q[i + 3] \in {"R", "r"}
    /\ q[i + 4] = " "

\* The text q begins with the word NOT, in any letter case, and a space.
BeginsWithNot(q) ==
    /\ Len(q) >= 4
    /\ q[1] \in {"N", "n"}
    /\ q[2] \in {"O", "o"}
    /\ q[3] \in {"T", "t"}
    /\ q[4] = " "

\* The pieces of q between the occurrences of ' OR ', left to right.
RECURSIVE Segments(_, _, _)
Segments(q, i, start) ==
    IF i >= Len(q) THEN <<SubSeq(q, start + 1, Len(q))>>
    ELSE IF IsOrAt(q, i) THEN <<SubSeq(q, start + 1, i)>> \o Segments(q, i + 4, i + 4)
    ELSE Segments(q, i + 1, start)

\* The node the grammar gives a query: a leading NOT, else an OR of the
\* trimmed non-empty segments when there are several, else a TERM.
RECURSIVE Parsed(_)
Parsed(q) ==
    LET t == strip(q)
        segs == Segments(t, 0, 0)
        parts == SelectSeq([k \in 1..Len(segs) |-> strip(segs[k])],
                           LAMBDA x : x # <<>>)
    IN  IF BeginsWithNot(t) THEN Not(strip(SubSeq(t, 5, Len(t))))
        ELSE IF Len(parts) > 1 THEN Or([k \in 1..Len(parts) |-> Parsed(parts[k])])
        ELSE Term(t)

\* C14: a query without a leading NOT is split at every ' OR ', its
\* segments are trimmed, the empty ones dropped and each parsed in turn;
\* several segments give OR of them in order, anything else TERM of the
\* query.
C14_OrSplit ==
    (h.op = "parse" /\ h.step = 1 /\ ~BeginsWithNot(strip(h.query))) =>
        h.out = Parsed(h.query)

\* C15 as stated: every query that begins with NOT and a space gives a NOT
\* node whose term is the trimmed rest of the query.
C15_LeadingNotAsStated ==
    (h.op = "parse" /\ h.step = 1 /\ BeginsWithNot(h.query)) =>
        h.out = Not(strip(SubSeq(h.query, 5, Len(h.query))))

\* C15: a query whose trimmed text begins with NOT, in any letter case,
\* and a space gives a NOT node whose term is the trimmed rest; no other
\* query gives a NOT node.
C15_LeadingNot ==
    (h.op = "parse" /\ h.step = 1) =>
        LET t == strip(h.query)
        IN  IF BeginsWithNot(t)
            THEN h.out = Not(strip(SubSeq(t, 5, Len(t)))) /\ h.out.term # <<>>
            ELSE h.out.type # "NOT"

\* A NOT query written in mixed case with spaces around it has been parsed.
C15_Witness ==
    /\ h.op = "parse" /\ h.step = 1
    /\ h.out.type = "NOT"
    /\ h.query[1] = " "
    /\ \E i \in 1..Len(h.query) : h.query[i] = "o"

\* C16: a KNAB scrape whose fetch of page k fails returns exactly the rows
\* of pages 1..k-1, in page order, and raises nothing.
C16_PartialPages ==
    (/\ h.op = "adapter" /\ h.step = 1 /\ h.jurisdiction = "latvia"
     /\ ~is_boolean_query(h.query) /\ Len(h.query) >= 2
     /\ h.env.unit[1] = "latvia")
    => LET matching == remote_match(KnabData, "Donor", h.query)
           k == h.env.unit[2]
       IN  /\ ~h.out.raised
           /\ h.out.recs = SubSeq(matching, 1, Min(k - 1, Len(matching)))

\* A failure on a page after the first, with the earlier pages' rows returned.
C16_Witness ==
    /\ h.op = "adapter" /\ h.step = 1 /\ h.jurisdiction = "latvia"
    /\ h.env.unit[1] = "latvia" /\ h.env.unit[2] >= 2
    /\ h.env.beh = "timeout"
    /\ Len(h.out.recs) = h.env.unit[2] - 1
    /\ h.out.recs[1] = KnabData[1]

\* Whether the amount text of a source row reads as a number in the
\* source's format; a row without an amount cell has nothing to read.
AmountParses(source, row) ==
    CASE source = "germany" ->
           LET m == search_amount_euro(row.cells[2])
           IN  m.matched /\ float_of(replace_char(remove_char(m.group, "."), ",", ".")).ok
      [] source = "latvia" ->
           LET m == search_eur_amount(row.amount_text)
           IN  m.matched /\ float_of(replace_char(m.group, ",", ".")).ok
      [] source = "eu" ->
           row.val2 = <<>> \/ float_of(remove_char(remove_char(row.val2, ","), " ")).ok
      [] OTHER ->
           float_of(replace_char(remove_char(strip(row.amount), "."), ",", ".")).ok

\* C17: the records made of a document's rows are those made of its rows
\* with a readable amount: a row whose amount does not read gives no
\* record (none with amount 0) and costs no other row its record.
C17_UnparsedAmountsDropped ==
    (h.op = "rows" /\ h.step = 1)
    => LET readable == SelectSeq(h.rows, LAMBDA row : AmountParses(h.source, row))
       IN  /\ ~h.parsed.raised
           /\ h.parsed.recs = parse_rows(h.source, readable).recs

\* C18: no record of an adapter's result has the empty string as donor,
\* whatever the query type.
C18_DonorNeverEmpty ==
    (h.op = "rows" /\ h.step = 1 /\ ~h.out.raised)
    => \A i \in 1..Len(h.out.recs) : h.out.recs[i].Donor # <<>>

\* The report tells its reader that the Netherlands records come from the
\* embedded dataset: the only such mark a report can carry is the Source
\* text of the records on its Netherlands sheet.
ReportMarksCached(report) ==
    \E i \in 1..Len(Exported(report, "netherlands")) :
        Exported(report, "netherlands")[i].Source = "Netherlands BZK (cached)"

\* C19: whenever the results on display come from a search the Netherlands
\* adapter answered from the embedded dataset (flag FALSE), the page shows
\* the limited-data notice and the exported report is marked as well.
C19_LimitedDataFlagged ==
    (/\ view.rendered
     /\ "nl_full_data" \in DOMAIN raw_results
     /\ ~raw_results["nl_full_data"])
    => /\ view.limited_data_notice
       /\ ReportMarksCached(view.report)

\* The key of a record over the columns cols.
KeyOf(r, cols) == [c \in cols |-> r[c]]

KeysOf(df, cols) == {KeyOf(df[i], cols) : i \in 1..Len(df)}

ItalyKey == {"Donor", "Party", "Amount", "Year"}

\* Every key of fetched is the key of exactly one record of kept, and kept
\* holds nothing else.
OnePerKey(kept, fetched, cols) ==
    /\ KeysOf(kept, cols) = KeysOf(fetched, cols)
    /\ \A i, k \in 1..Len(kept) : i # k => KeyOf(kept[i], cols) # KeyOf(kept[k], cols)
    /\ \A i \in 1..Len(kept) : \E k \in 1..Len(fetched) : kept[i] = fetched[k]

\* C20: the UK frames of the term searches of a boolean query are combined
\* into one record per ECRef, the Italian files into one record per
\* (Donor, Party, Amount, Year); every key fetched keeps exactly one record.
C20_OneRecordPerKey ==
    (h.op = "aggregate" /\ h.step = 1)
    => /\ OnePerKey(h.uk, concat(uk_all_dfs(h.query, h.env)), {"ECRef"})
       /\ OnePerKey(h.italy, all_docs("italy", h.env), ItalyKey)

\* Both sources fetched a key more than once and kept one record of it.
C20_Witness ==
    /\ h.op = "aggregate" /\ h.step = 1
    /\ h.uk # <<>> /\ Len(h.uk) < Len(concat(uk_all_dfs(h.query, h.env)))
    /\ h.italy # <<>> /\ Len(h.italy) < Len(all_docs("italy", h.env))

\* The amount written in a cell, in cents.
WrittenCents(c) ==
    100 * IntOf(c.lead \o concat(c.groups))
    + (IF c.decimals = <<>> THEN 0 ELSE IntOf(c.decimals))

\* C21: an amount written in the convention of its source (continental for
\* Austria and Germany, '£' and ',' thousands for the UK) parses to the
\* amount written, to the cent.
C21_AmountsParse ==
    (h.op = "amount" /\ h.step = 1)
    => h.out.ok /\ h.out.value = WrittenCents(h)

\* '1.000,00' read by the Austrian adapter as 1000.00.
C21_Witness ==
    /\ h.op = "amount" /\ h.step = 1 /\ h.convention = "austria"
    /\ h.text = <<"1", ".", "0", "0", "0", ",", "0", "0">>
    /\ h.out.value = 100000

\* What a remote donor-name source holds, and its donor column.
RemoteData(j) == IF j = "uk" THEN UKData ELSE KnabData

RemoteDonorColumn(j) == IF j = "uk" THEN "DonorName" ELSE "Donor"

\* The rows one remote search per term of the query gives, in the order of
\* the terms, merged without duplicates and filtered by the query.
MergedTermSearches(j, query) ==
    LET terms == get_search_terms(query)
        found == [k \in 1..Len(terms) |->
                     remote_match(RemoteData(j), RemoteDonorColumn(j), terms[k])]
        merged == drop_duplicates(concat(found),
                                  IF j = "uk" THEN {"ECRef"} ELSE {"Donor", "Amount", "Year"})
    IN  apply_boolean_filter(merged, parse_boolean_query(query),
                             RemoteDonorColumn(j), {}).recs

\* C22: for a boolean query and a source that answers, the UK and the
\* Latvian adapter return the merged results of one remote search per term
\* of the query, duplicates removed and the NOT exclusions applied.
C22_OneSearchPerTerm ==
    (/\ h.op = "adapter" /\ h.step = 1 /\ h.jurisdiction \in {"uk", "latvia"}
     /\ is_boolean_query(h.query) /\ h.env = NoFailure)
    => LET expected == MergedTermSearches(h.jurisdiction, h.query)
           col == RemoteDonorColumn(h.jurisdiction)
       IN  /\ ~h.out.raised
           /\ Len(h.out.recs) = Len(expected)
           /\ \A i \in 1..Len(expected) : h.out.recs[i][col] = expected[i][col]

\* The records of the pages requested so far, in page order.
RowsOfPages(c) ==
    concat([k \in 1..Len(c.requested) |-> page_rows(c.responses[k], c.requested[k])])

C30_ScrapeTerminates ==
    /\ [](h.op = "scrape"
          => /\ Len(h.requested) <= h.max_pages
             /\ \A i \in 1..(Len(h.log) - 1) : ~(h.log[i] = "get" /\ h.log[i + 1] = "get"))
    /\ <>(h.op = "scrape" /\ h.pc = "done")

\* The default ten pages, each with result rows and a next-page link, all
\* requested, and the scrape ended.
C30_Witness ==
    /\ h.op = "scrape" /\ h.pc = "done" /\ h.max_pages = max_pages
    /\ Len(h.requested) = max_pages
    /\ \A k \in 1..Len(h.responses) : h.responses[k] = "rows_next"

\* A group-label row: a single-cell row of a Bundestag table, a party
\* header of an APPF sheet.
IsLabelRow(source, row) ==
    IF source = "germany" THEN Len(row.cells) = 1 ELSE startswith(row.val0, <<"Ø">>)

LabelText(source, row) ==
    IF source = "germany" THEN row.cells[1] ELSE strip(remove_char(row.val0, "Ø"))

\* A row with the cells a data row needs.
IsDataRow(source, row) ==
    IF source = "germany" THEN Len(row.cells) >= 4
    ELSE /\ ~IsLabelRow(source, row) /\ lower(strip(row.val0)) # <<"d", "o", "n", "o", "r">>
         /\ row.val1 # <<>> /\ row.val2 # <<>>

LabelsAbove(source, rows, i) == {k \in 1..(i - 1) : IsLabelRow(source, rows[k])}

\* The label of the last label row above row i, missing when there is none.
GroupOf(source, rows, i) ==
    IF LabelsAbove(source, rows, i) = {} THEN NaN
    ELSE LabelText(source, rows[CHOOSE k \in LabelsAbove(source, rows, i) :
                                   \A m \in LabelsAbove(source, rows, i) : m <= k])

\* The data rows that give a record: all of a Bundestag table, those below
\* a party header of an APPF sheet.
RecordRows(source, rows) ==
    {i \in 1..Len(rows) :
        /\ IsDataRow(source, rows[i])
        /\ source = "germany" \/ LabelsAbove(source, rows, i) # {}}

\* C24: the records of a grouped table are those of its data rows, in
\* order, each with the label of the last label row above it (Month in a
\* Bundestag table, Party in an APPF sheet); label rows, the column-title
\* row and rows with too few cells give no record.
C24_GroupLabels ==
    (h.op = "table" /\ h.step = 1)
    => LET data == RecordRows(h.source, h.rows)
       IN  /\ Len(h.out) = Cardinality(data)
           /\ \A i \in data :
                 LET rec == h.out[Cardinality({m \in data : m <= i})]
                 IN  GroupOf(h.source, h.rows, i)
                     = (IF h.source = "germany" THEN rec.Month ELSE rec.Party)

\* Two data rows below 'January', a row of two cells between them.
C24_Witness ==
    /\ h.op = "table" /\ h.step = 1 /\ h.source = "germany"
    /\ Len(h.rows) = 4 /\ h.rows[1].cells = << <<"J", "a", "n", "u", "a", "r", "y">> >>
    /\ Len(h.rows[2].cells) = 4 /\ Len(h.rows[3].cells) = 2 /\ Len(h.rows[4].cells) = 5
    /\ Len(h.out) = 2
    /\ h.out[1].Month = <<"J", "a", "n", "u", "a", "r", "y">> /\ h.out[2].Month = <<"J", "a", "n", "u", "a", "r", "y">>

\* C25: a query that begins with NOT and also holds ' OR ' is given no
\* NOT, OR or TERM node by parse_boolean_query.
C25_MixedNotOrUnsupported ==
    (/\ h.op = "parse" /\ h.step = 1
     /\ BeginsWithNot(strip(h.query))
     /\ \E i \in 4..Len(strip(h.query)) : IsOrAt(strip(h.query), i))
    => h.out.type \notin {"NOT", "OR", "TERM"}

\* The stored result sets are those a search for the stored last_query
\* gives, for some behaviour of the sources.
ResultsOfLastQuery ==
    \E env \in SessionEnvs :
        /\ ~search_all(last_query, odfpy, env).crashed
        /\ search_all(last_query, odfpy, env).raw_results = raw_results

\* C26: whenever results are on display the report is titled with
\* last_query and the stored result sets, from which the records shown and
\* exported are taken, are those of a search for last_query.
C26_ResultsBelongToLastQuery ==
    view.rendered => view.report.title = last_query /\ ResultsOfLastQuery

\* C27: what a locally filtering adapter returns for a query is what
\* apply_boolean_filter returns for the parsed query, whichever path
\* is_boolean_query chooses.
C27_PathsAgree ==
    (h.op = "local" /\ h.step = 1) => h.out = h.by_filter

\* The trimmed, non-empty pieces of the trimmed query between the
\* occurrences of ' OR ' in the query itself.
TrimmedSegments(q) ==
    SelectSeq([k \in 1..Len(Segments(strip(q), 0, 0)) |->
                  strip(Segments(strip(q), 0, 0)[k])],
              LAMBDA x : x # <<>>)

\* C28: the segments of an OR parse are, in order, the trimmed pieces of the
\* query between its ' OR ' occurrences: no character of a piece is missing
\* from its segment or found in another one.
C28_SegmentsAreSubstrings ==
    (h.op = "parse" /\ h.step = 1 /\ h.out.type = "OR")
    => /\ Len(h.out.terms) = Len(TrimmedSegments(h.query))
       /\ \A k \in 1..Len(h.out.terms) :
             h.out.terms[k] = parse_boolean_query(TrimmedSegments(h.query)[k])

\* C29: the exclusion set holds only donor names of the stored result sets.
C29_ExcludedAreKnownDonors ==
    excluded_donors \subseteq all_donors_of(raw_results)

\* A donor is excluded while the stored results of the session do not hold
\* every donor name of the sources.
C29_Witness ==
    /\ excluded_donors # {}
    /\ all_donors_of(raw_results) # DonorNames
    /\ view.rendered

====
